---- MODULE Spec2Model ----
(***************************************************************************)
(* A model of the Loopring market connector                                *)
(* (src/hummingbot/market/loopring/loopring_market.pyx).                   *)
(*                                                                         *)
(* The connector runs on one asyncio event loop.  Every action below is    *)
(* one suspension-free segment of one coroutine: it starts where the       *)
(* coroutine is resumed and ends at its next await that really suspends    *)
(* (a network request, a lock that is taken, an event that is not set).    *)
(*                                                                         *)
(* SpecAlloc is the order submission path and the order id allocator,      *)
(* Spec the order lifecycle under the event stream and one reconciliation  *)
(* cycle, SpecCancel the event stream with cancellation, SpecCancelAll the *)
(* event stream with cancel_all, SpecCycle the reconciliation loop with    *)
(* all its failures, SpecPoll that loop over two poll intervals and        *)
(* SpecStream the event stream router with its failures, the last two      *)
(* with the fairness of the event loop.                                    *)
(***************************************************************************)
EXTENDS Integers, Sequences, FiniteSets, TLC

\* ---------------------------------------------------------------- bounds
NOids == 2            \* client order ids 1..NOids
MaxRaw == 3           \* largest raw (unquantized) order amount a caller passes
MaxFill == 3          \* largest cumulative fill a status delta reports
MaxTime == 2          \* largest timestamp c_tick is called with
MaxBal == 1           \* largest padded amount of a balance record
MaxCancels == 1       \* cancel_order calls per client order id

\* ------------------------------------------------------- program constants
NoId == -1            \* self._next_order_id.get(token) is None
NoTask == -1          \* the asyncio.Lock is not held
NetTask == 0          \* the start_network coroutine, as a lock client
PollInterval == 2     \* self._poll_interval; time is counted in halves of it

Oids == 1..NOids
BaseToken == 0
QuoteToken == 1
Tokens == {BaseToken, QuoteToken}
Pair == "B-Q"

EventKinds == {"created", "failure", "cancelled", "expired", "filled", "completed"}
TerminalKinds == {"failure", "cancelled", "expired", "completed"}

VARIABLES
  next_order_id,   \* self._next_order_id : token -> next id, NoId when absent
  lockHolder,      \* self._order_id_lock : the task inside the async with
  lockQueue,       \* self._order_id_lock : its FIFO of waiting tasks
  remoteNext,      \* the exchange's answer to GET api/v2/orderId, per token
  trading_rules,   \* self._trading_rules : pair -> TradingRule
  in_flight,       \* keys of self._in_flight_orders
  ord,             \* the LoopringInFlightOrder object of each client order id
  emitted,         \* c_trigger_event calls so far, counted per order id and kind
  subPc,           \* position of execute_buy / execute_sell of each client order id
  subArgs,         \* its arguments
  subOrderId,      \* the order id place_order obtained for it, NoId before
  netPc,           \* position of start_network
  netTok,          \* the token start_network is resyncing
  trading_required,\* self._trading_required
  allocLog,        \* per token: the ids returned by the unforced calls, that
                   \* is to place_order, in the order returned (history)
  epochAt,         \* per token: Len(allocLog) when the last forced resync
                   \* stored its answer (history)
  epochStart,      \* per token: the answer that forced resync stored, NoId
                   \* when there was none (history)
  listenerPc,      \* position of _user_stream_event_listener
  pollPc,          \* position of _polling_update
  poll_notifier,   \* self._poll_notifier.is_set()
  last_timestamp,  \* self._last_timestamp
  cycle,           \* number of reconciliation cycles started so far
  balPc,           \* per cycle: position of its _update_balances
  rulesPc,         \* per cycle: position of its _update_trading_rules
  statPc,          \* per cycle: position of its _update_order_status
  statRest,        \* per cycle: the orders of its copy still to be fetched
  account_balances,            \* self._account_balances, per token
  account_available_balances,  \* self._account_available_balances, per token
  cancelPc,        \* per client order id: position of a cancel_order for it
  cancels,         \* per client order id: cancel_order calls so far
  caPc,            \* position of cancel_all
  caRest,          \* cancel_all: the orders of its copy it has not finished
  caResults,       \* cancel_all: its list `results`
  caSnap,          \* cancel_all: the registry when it was called (history)
  caFailed,        \* cancel_all: orders whose cancellation request failed (history)
  cycSnap,         \* per cycle: the registry copy of _update_order_status (history)
  cycFailed,       \* per cycle: orders whose status fetch failed (history)
  cycApplied,      \* per cycle: orders _update_inflight_order was called on (history)
  cycBalSet,       \* per cycle: _set_balances wrote the fetched balances (history)
  recording,       \* whether the cyc* history of a cycle is kept
  reconAt,         \* self._last_timestamp when the last cycle started (history)
  polling_update_task,  \* self._polling_update_task is not None
  balBatch,        \* the updates the last completed _set_balances wrote (history)
  rulesEnabled,    \* the enabled markets of the last answer
                   \* _update_trading_rules stored (history)
  default_headers, \* the X-API-SIG entries of the dict that is the default
                   \* value of parameter `headers` of api_request
  last             \* the delta this step handled, NoApply if none (history):
                   \* kind "drop" (a push for an id not in the registry) or
                   \* "apply" (_update_inflight_order was called), the client
                   \* order id, whether the delta would lower the cumulative
                   \* fill or lift it above the amount, whether the order was
                   \* terminal and the delta the one that made it so, whether
                   \* the call raised; kind "account" (an account message
                   \* was handled), its token, total and locked amount

vars == <<next_order_id, lockHolder, lockQueue, remoteNext, trading_rules,
          in_flight, ord, emitted, subPc, subArgs, subOrderId, netPc, netTok,
          trading_required, allocLog, epochAt, epochStart,
          listenerPc, pollPc, poll_notifier, last_timestamp, cycle, balPc,
          rulesPc, statPc, statRest, account_balances,
          account_available_balances, cancelPc, cancels, caPc, caRest, caResults,
          caSnap, caFailed, cycSnap, cycFailed,
          cycApplied, cycBalSet, recording, last, reconAt,
          polling_update_task, balBatch, rulesEnabled, default_headers>>

allocVars == <<next_order_id, lockHolder, lockQueue, allocLog, epochAt, epochStart>>

netVars == <<netPc, netTok, trading_required>>

subVars == <<subPc, subArgs, subOrderId>>

pollVars == <<pollPc, poll_notifier, last_timestamp, cycle, reconAt,
              polling_update_task>>

cycVars == <<balPc, rulesPc, statPc, statRest, cycSnap, cycFailed, cycApplied,
             cycBalSet, recording, rulesEnabled>>

balVars == <<account_balances, account_available_balances, balBatch>>

cancelAllVars == <<caPc, caRest, caResults, caSnap, caFailed>>

cancelVars == <<cancelPc, cancels, cancelAllVars, default_headers>>

\* what start_network leaves alone of the lifecycle side: all of it but the
\* reference to the polling task (the loop it starts is not followed there)
netLife == <<listenerPc, pollPc, poll_notifier, last_timestamp, cycle, reconAt,
             cycVars, balVars, cancelVars, last>>

lifeVars == <<listenerPc, pollVars, cycVars, balVars, cancelVars, last>>

\* what the actions of the reconciliation and push side leave alone
submitSide == <<allocVars, remoteNext, subVars, netVars>>

\* ------------------------------------------------------------- helpers
Max(a, b) == IF a >= b THEN a ELSE b

NoOrder == [state |-> "NONE", executed |-> 0, amount |-> 0, side |-> "BUY"]

NoArgs == [side |-> "BUY", kind |-> "LIMIT", amount |-> 0, price |-> 0]

\* c_trigger_event(kind, event for client order id o)
Emit(em, o, k) == [em EXCEPT ![o][k] = @ + 1]

\* The TradingRule that _update_trading_rules builds for an enabled market:
\* amounts are counted in the smallest unit a caller can pass.
DefaultRule == [min_order_size |-> 2, max_order_size |-> 2,
                min_price_increment |-> 1, min_base_amount_increment |-> 2,
                min_notional_size |-> 2,
                supports_limit_orders |-> TRUE, supports_market_orders |-> FALSE]

\* The TradingRule of a market whose base token has one more digit of
\* precision.
FineRule == [DefaultRule EXCEPT !.min_base_amount_increment = 1]

\* Decimal.quantize(quantum, rounding=ROUND_DOWN) on non-negative values
QuantizeDown(x, quantum) == x - (x % quantum)

c_quantize_order_price(rules, price) ==
  QuantizeDown(price, rules[Pair].min_price_increment)

\* a quantizer that returns the rounded amount whatever its size
quantize_no_sentinel(rules, amount, price) ==
  QuantizeDown(amount, rules[Pair].min_base_amount_increment)

\* called by execute_order with two arguments, so price = 0.0
c_quantize_order_amount(rules, amount, price) ==
  LET quantized_amount == QuantizeDown(amount, rules[Pair].min_base_amount_increment)
  IN IF quantized_amount < rules[Pair].min_order_size THEN 0
     ELSE IF price > 0 /\ price * quantized_amount < rules[Pair].min_notional_size THEN 0
     ELSE quantized_amount

\* checks that leave out the order kind
ValidateOrderAnyKind(rules, kind, amount, price) ==
  LET rule == rules[Pair]
  IN IF amount < rule.min_order_size THEN "ValueError"
     ELSE IF amount > rule.max_order_size THEN "ValueError"
     ELSE IF amount * price < rule.min_notional_size THEN "ValueError"
     ELSE "ok"

\* the checks of execute_order before its try block; "ok" or the ValueError
ValidateOrder(rules, kind, amount, price) ==
  LET rule == rules[Pair]
  IN IF kind = "LIMIT" /\ ~rule.supports_limit_orders THEN "ValueError"
     ELSE IF kind = "MARKET" /\ ~rule.supports_market_orders THEN "ValueError"
     ELSE IF amount < rule.min_order_size THEN "ValueError"
     ELSE IF amount > rule.max_order_size THEN "ValueError"
     ELSE IF amount * price < rule.min_notional_size THEN "ValueError"
     ELSE "ok"

\* the sell token: order_details["tokenSId"] in place_order and
\* token_sell_id in execute_order
SellToken(side) == IF side = "SELL" THEN BaseToken ELSE QuoteToken

\* a lock that every task may enter
LockAlwaysFree == TRUE

\* asyncio.Lock.acquire returns without suspending only when the lock is
\* free and nobody waits for it
LockFree == lockHolder = NoTask /\ lockQueue = <<>>

\* ------------------------------------------------ _get_next_order_id
\* The body of _get_next_order_id(token, force_sync = False) from the moment
\* the caller holds the lock, when the counter exists: read it, add one,
\* leave the async with.  The new counter and the id returned.
WarmCounter(counter) == counter + 1

WarmReturn(counter) == counter

\* The cold / forced branch once the request has answered with `data`:
\* the counter stored and the id returned.
SyncedCounter(data) == data

SyncedReturn(data) == data

\* a failed query that leaves the counter of the token absent
FailedQueryForgets(counter) == NoId

\* The cold / forced branch once the request has failed: the except
\* branch logs and stores nothing, the counter is what it was.
FailedQueryCounter(counter) == counter

\* release() of the lock held by task k: the lock is free again and the
\* head of the queue takes it when it is next scheduled.
ReleasedHolder == NoTask

\* ------------------------------------------------------ submission
\* c_buy / c_sell: make the client order id and schedule execute_buy /
\* execute_sell for it.
CBuySell(o, side, kind, amount, price) ==
  /\ subPc[o] = "idle"
  /\ \A p \in Oids : p < o => subPc[p] # "idle"   \* get_tracking_nonce grows
  /\ subPc' = [subPc EXCEPT ![o] = "scheduled"]
  /\ subArgs' = [subArgs EXCEPT ![o] =
                   [side |-> side, kind |-> kind, amount |-> amount, price |-> price]]
  /\ UNCHANGED <<allocVars, remoteNext, trading_rules, in_flight, ord, emitted,
                 subOrderId, netVars>>
  /\ UNCHANGED lifeVars

\* stop_tracking(client_order_id)
stop_tracking(reg, o) == reg \ {o}

\* _get_next_order_id(token_s_id) called by place_order of submission o,
\* from the moment o holds the lock to the next suspension; `rest` is the
\* queue of the lock without o.
\*   counter absent   -> GET api/v2/orderId is sent with the lock held
\*   counter present  -> id taken, lock released, order signed and POSTed
PlaceOrderLocked(o, rest) ==
  LET tok == SellToken(subArgs[o].side)
  IN /\ lockQueue' = rest
     /\ IF next_order_id[tok] = NoId
        THEN /\ lockHolder' = o
             /\ subPc' = [subPc EXCEPT ![o] = "fetch"]
             /\ UNCHANGED <<next_order_id, subOrderId, allocLog, epochAt, epochStart>>
        ELSE /\ next_order_id' = [next_order_id EXCEPT ![tok] = WarmCounter(@)]
             /\ subOrderId' = [subOrderId EXCEPT ![o] = WarmReturn(next_order_id[tok])]
             /\ allocLog' = [allocLog EXCEPT ![tok] = Append(@, WarmReturn(next_order_id[tok]))]
             /\ lockHolder' = ReleasedHolder
             /\ subPc' = [subPc EXCEPT ![o] = "post"]
             /\ UNCHANGED <<epochAt, epochStart>>

\* place_order up to its first suspension: async with self._order_id_lock
\* is entered at once when the lock is free, and waits in the queue if not.
EnterPlaceOrder(o) ==
  IF LockFree
  THEN PlaceOrderLocked(o, <<>>)
  ELSE /\ lockQueue' = Append(lockQueue, o)
       /\ subPc' = [subPc EXCEPT ![o] = "lockwait"]
       /\ UNCHANGED <<lockHolder, next_order_id, subOrderId, allocLog, epochAt, epochStart>>

\* The except branch of execute_order up to its first suspension:
\* _get_next_order_id(token_sell_id, force_sync = True) takes the lock if it
\* is free (`holder`, `queue`: the lock as this segment left it) and sends
\* GET api/v2/orderId, and waits in the queue if not.
EnterResync(o, holder, queue) ==
  IF holder = NoTask /\ queue = <<>>
  THEN /\ lockHolder' = o
       /\ lockQueue' = queue
       /\ subPc' = [subPc EXCEPT ![o] = "resync_fetch"]
  ELSE /\ lockHolder' = holder
       /\ lockQueue' = Append(queue, o)
       /\ subPc' = [subPc EXCEPT ![o] = "resync_lockwait"]

\* execute_buy / execute_sell is first run: execute_order quantizes, checks
\* the trading rule and calls place_order.
ExecuteStart(o) ==
  /\ subPc[o] = "scheduled"
  /\ IF Pair \notin DOMAIN trading_rules
     THEN \* self._trading_rules[trading_pair] raises KeyError, which is no
          \* ValueError: it leaves execute_buy without any event
          /\ subPc' = [subPc EXCEPT ![o] = "keyerror"]
          /\ subArgs' = [subArgs EXCEPT ![o] = NoArgs]
          /\ UNCHANGED <<allocVars, in_flight, emitted, subOrderId>>
     ELSE LET amount == c_quantize_order_amount(trading_rules, subArgs[o].amount, 0)
              price == c_quantize_order_price(trading_rules, subArgs[o].price)
          IN IF ValidateOrder(trading_rules, subArgs[o].kind, amount, price) # "ok"
             THEN \* except ValueError in execute_buy / execute_sell
                  /\ in_flight' = stop_tracking(in_flight, o)
                  /\ emitted' = Emit(emitted, o, "failure")
                  /\ subPc' = [subPc EXCEPT ![o] = "raised"]
                  /\ UNCHANGED <<allocVars, subArgs, subOrderId>>
             ELSE /\ subArgs' = [subArgs EXCEPT ![o].amount = amount, ![o].price = price]
                  /\ EnterPlaceOrder(o)
                  /\ UNCHANGED <<in_flight, emitted>>
  /\ UNCHANGED <<remoteNext, trading_rules, ord, netVars>>
  /\ UNCHANGED lifeVars

\* The lock is handed to submission o, which waited in _get_next_order_id
\* called by place_order.
LockGranted(o) ==
  /\ subPc[o] = "lockwait"
  /\ lockHolder = NoTask
  /\ lockQueue # <<>> /\ Head(lockQueue) = o
  /\ PlaceOrderLocked(o, Tail(lockQueue))
  /\ UNCHANGED <<remoteNext, trading_rules, in_flight, ord, emitted, subArgs,
                 netVars>>
  /\ UNCHANGED lifeVars

\* from_loopring_order: the order object that is tracked once the exchange
\* accepted the order
NewOrder(args) ==
  [state |-> "SUBMITTED", executed |-> 0, amount |-> args.amount, side |-> args.side]

\* What the exchange answers to GET api/v2/orderId after it accepted an
\* order with id `id` for the token: the first id it has not seen.
RemoteAfterAccept(remote, id) == Max(remote, id + 1)

PostResults == {"accepted", "rejected", "error", "lost"}

\* GET api/v2/orderId of the cold branch answers for submission o.
FetchReturn(o, ok) ==
  LET tok == SellToken(subArgs[o].side)
      data == remoteNext[tok]
  IN /\ subPc[o] = "fetch"
     /\ lockHolder = o
     /\ IF ok
        THEN /\ next_order_id' = [next_order_id EXCEPT ![tok] = SyncedCounter(data)]
             /\ subOrderId' = [subOrderId EXCEPT ![o] = SyncedReturn(data)]
             /\ allocLog' = [allocLog EXCEPT ![tok] = Append(@, SyncedReturn(data))]
             /\ lockHolder' = ReleasedHolder
             /\ subPc' = [subPc EXCEPT ![o] = "post"]
             /\ UNCHANGED <<lockQueue, epochAt, epochStart>>
        ELSE \* the except branch logs; `return next_id` then raises
             \* UnboundLocalError, which execute_order catches
             /\ EnterResync(o, ReleasedHolder, lockQueue)
             /\ next_order_id' = [next_order_id EXCEPT ![tok] = FailedQueryCounter(@)]
             /\ UNCHANGED <<subOrderId, allocLog, epochAt, epochStart>>
     /\ UNCHANGED <<remoteNext, trading_rules, in_flight, ord, emitted, subArgs, netVars>>
     /\ UNCHANGED lifeVars

\* POST api/v2/order answers for submission o.
\*   accepted : a response with "data"
\*   rejected : a response without "data"
\*   error    : the request fails and the exchange never saw the order
\*   lost     : the exchange took the order and the request fails
PostReturn(o, res) ==
  LET tok == SellToken(subArgs[o].side)
  IN /\ subPc[o] = "post"
     /\ remoteNext' = IF res \in {"accepted", "lost"}
                      THEN [remoteNext EXCEPT ![tok] = RemoteAfterAccept(@, subOrderId[o])]
                      ELSE remoteNext
     /\ IF res = "accepted"
        THEN /\ ord' = [ord EXCEPT ![o] = NewOrder(subArgs[o])]
             /\ in_flight' = in_flight \cup {o}
             /\ emitted' = Emit(emitted, o, "created")
             /\ subPc' = [subPc EXCEPT ![o] = "done"]
             /\ UNCHANGED <<lockHolder, lockQueue>>
        ELSE /\ EnterResync(o, lockHolder, lockQueue)
             /\ UNCHANGED <<ord, in_flight, emitted>>
     /\ UNCHANGED <<next_order_id, allocLog, epochAt, epochStart, trading_rules, subArgs,
                    subOrderId, netVars>>
     /\ UNCHANGED lifeVars

\* The lock is handed to submission o, which waited in the forced
\* _get_next_order_id of execute_order.
ResyncGranted(o) ==
  /\ subPc[o] = "resync_lockwait"
  /\ lockHolder = NoTask
  /\ lockQueue # <<>> /\ Head(lockQueue) = o
  /\ lockHolder' = o
  /\ lockQueue' = Tail(lockQueue)
  /\ subPc' = [subPc EXCEPT ![o] = "resync_fetch"]
  /\ UNCHANGED <<next_order_id, allocLog, epochAt, epochStart, remoteNext, trading_rules,
                 in_flight, ord, emitted, subArgs, subOrderId, netVars>>
  /\ UNCHANGED lifeVars

\* What execute_order and then execute_buy / execute_sell emit for o once
\* the forced resync has returned: the failure event of execute_order, and,
\* execute_order having returned normally, the created event.
AfterResyncEvents(em, o) == Emit(Emit(em, o, "failure"), o, "created")

\* GET api/v2/orderId of the forced resync answers for submission o.
ResyncReturn(o, ok) ==
  LET tok == SellToken(subArgs[o].side)
      data == remoteNext[tok]
  IN /\ subPc[o] = "resync_fetch"
     /\ lockHolder = o
     /\ lockHolder' = ReleasedHolder
     /\ IF ok
        THEN /\ next_order_id' = [next_order_id EXCEPT ![tok] = SyncedCounter(data)]
             /\ epochAt' = [epochAt EXCEPT ![tok] = Len(allocLog[tok])]
             /\ UNCHANGED allocLog
             /\ epochStart' = [epochStart EXCEPT ![tok] = SyncedCounter(data)]
             /\ in_flight' = stop_tracking(in_flight, o)
             /\ emitted' = AfterResyncEvents(emitted, o)
             /\ subPc' = [subPc EXCEPT ![o] = "failed"]
        ELSE \* `return next_id` raises UnboundLocalError inside the except
             \* branch of execute_order; execute_buy catches ValueError only
             /\ subPc' = [subPc EXCEPT ![o] = "crashed"]
             /\ next_order_id' = [next_order_id EXCEPT ![tok] = FailedQueryCounter(@)]
             /\ UNCHANGED <<allocLog, epochAt, epochStart, in_flight, emitted>>
     /\ UNCHANGED <<lockQueue, remoteNext, trading_rules, ord, subArgs, subOrderId, netVars>>
     /\ UNCHANGED lifeVars

\* ---------------------------------------------------- start_network
\* self._token_configuration.get_tokens(), in the order start_network
\* walks them
TokenOrder == <<BaseToken, QuoteToken>>

\* start_network is called: stop_network runs, then it waits for
\* self._token_configuration._configure().
NetStart ==
  /\ netPc = "idle"
  /\ netPc' = "configure"
  /\ polling_update_task' = FALSE
  /\ UNCHANGED <<allocVars, remoteNext, trading_rules, in_flight, ord, emitted,
                 subPc, subArgs, subOrderId, netTok, trading_required>>
  /\ UNCHANGED netLife

\* _configure() returns; with trading required GET api/v2/timestamp is sent,
\* without it the polling task is started at once.
NetConfigured(ok) ==
  /\ netPc = "configure"
  /\ netPc' = IF ~ok THEN "crashed" ELSE IF trading_required THEN "info" ELSE "done"
  /\ polling_update_task' = (polling_update_task \/ (ok /\ ~trading_required))
  /\ UNCHANGED <<allocVars, remoteNext, trading_rules, in_flight, ord, emitted,
                 subPc, subArgs, subOrderId, netTok, trading_required>>
  /\ UNCHANGED netLife

\* start_network calls _get_next_order_id(token, force_sync = True) for the
\* k-th token, or is through with the tokens and starts the polling task.
NetEnterSync(k, holder, queue) ==
  IF k > Len(TokenOrder)
  THEN /\ netPc' = "done"
       /\ polling_update_task' = TRUE
       /\ netTok' = k
       /\ lockHolder' = holder
       /\ lockQueue' = queue
  ELSE /\ netTok' = k
       /\ UNCHANGED polling_update_task
       /\ IF holder = NoTask /\ queue = <<>>
          THEN /\ lockHolder' = NetTask
               /\ lockQueue' = queue
               /\ netPc' = "fetch"
          ELSE /\ lockHolder' = holder
               /\ lockQueue' = Append(queue, NetTask)
               /\ netPc' = "lockwait"

\* GET api/v2/timestamp answers.
NetInfoReturn(ok) ==
  /\ netPc = "info"
  /\ IF ok
     THEN NetEnterSync(1, lockHolder, lockQueue)
     ELSE /\ netPc' = "crashed"
          /\ UNCHANGED <<lockHolder, lockQueue, netTok, polling_update_task>>
  /\ UNCHANGED <<next_order_id, allocLog, epochAt, epochStart, remoteNext, trading_rules,
                 in_flight, ord, emitted, subPc, subArgs, subOrderId, trading_required>>
  /\ UNCHANGED netLife

\* The lock is handed to start_network.
NetLockGranted ==
  /\ netPc = "lockwait"
  /\ lockHolder = NoTask
  /\ lockQueue # <<>> /\ Head(lockQueue) = NetTask
  /\ lockHolder' = NetTask
  /\ lockQueue' = Tail(lockQueue)
  /\ netPc' = "fetch"
  /\ UNCHANGED <<next_order_id, allocLog, epochAt, epochStart, remoteNext, trading_rules,
                 in_flight, ord, emitted, subPc, subArgs, subOrderId, netTok,
                 trading_required, polling_update_task>>
  /\ UNCHANGED netLife

\* GET api/v2/orderId of start_network's forced resync answers.
NetSyncReturn(ok) ==
  LET tok == TokenOrder[netTok]
      data == remoteNext[tok]
  IN /\ netPc = "fetch"
     /\ lockHolder = NetTask
     /\ IF ok
        THEN /\ next_order_id' = [next_order_id EXCEPT ![tok] = SyncedCounter(data)]
             /\ epochAt' = [epochAt EXCEPT ![tok] = Len(allocLog[tok])]
             /\ UNCHANGED allocLog
             /\ epochStart' = [epochStart EXCEPT ![tok] = SyncedCounter(data)]
             /\ NetEnterSync(netTok + 1, ReleasedHolder, lockQueue)
        ELSE \* UnboundLocalError leaves start_network
             /\ lockHolder' = ReleasedHolder
             /\ netPc' = "crashed"
             /\ next_order_id' = [next_order_id EXCEPT ![tok] = FailedQueryCounter(@)]
             /\ UNCHANGED <<allocLog, epochAt, epochStart, lockQueue, netTok,
                            polling_update_task>>
     /\ UNCHANGED <<remoteNext, trading_rules, in_flight, ord, emitted, subPc,
                    subArgs, subOrderId, trading_required>>
     /\ UNCHANGED netLife

\* ------------------------------------------- order lifecycle machine
Terminal == {"FILLED", "CANCELLED", "EXPIRED", "FAILED"}

\* the remote status codes of a status delta
RemoteStatus == {"processing", "processed", "cancelled", "failed", "expired"}

Deltas == [status : RemoteStatus, filled : 0..MaxFill]

\* `last` when the step applied no delta
NoApply == [kind |-> "none", o |-> 0, viol |-> FALSE, dup |-> FALSE, raised |-> FALSE,
            total |-> 0, locked |-> 0]

\* LoopringInFlightOrder.is_done / is_failure / is_cancelled
is_done(order) == order.state \in Terminal

is_failure(order) == order.state \in {"FAILED", "CANCELLED", "EXPIRED"}

is_cancelled(order) == order.state = "CANCELLED"

\* the lifecycle state a delta leads to
NextState(order, d) ==
  CASE d.status = "cancelled" -> "CANCELLED"
    [] d.status = "failed" -> "FAILED"
    [] d.status = "expired" -> "EXPIRED"
    [] d.status = "processed" /\ d.filled = order.amount -> "FILLED"
    [] d.filled = 0 -> "SUBMITTED"
    [] OTHER -> "PARTIALLY_FILLED"

\* the status event a delta produces
StatusEvents(d) ==
  CASE d.status = "cancelled" -> <<"cancelled">>
    [] d.status = "failed" -> <<"failure">>
    [] d.status = "expired" -> <<"expired">>
    [] OTHER -> <<>>

\* a delta that would lower the cumulative fill or lift it above the
\* requested amount
Violating(order, d) == d.filled < order.executed \/ d.filled > order.amount

\* an update that takes every delta of an open order as it comes
updateUnchecked(order, d) ==
  IF is_done(order)
  THEN [order |-> order, events |-> <<>>, rejected |-> FALSE]
  ELSE [order |-> [order EXCEPT !.state = NextState(order, d), !.executed = d.filled],
        events |-> (IF d.filled > order.executed THEN <<"filled">> ELSE <<>>)
                     \o StatusEvents(d),
        rejected |-> FALSE]

\* LoopringInFlightOrder.update(event): the order after the delta, the
\* issuable events, and whether the delta was rejected (update raises).
\* A terminal order takes no delta; a violating delta is rejected.
update(order, d) ==
  IF is_done(order)
  THEN [order |-> order, events |-> <<>>, rejected |-> FALSE]
  ELSE IF Violating(order, d)
  THEN [order |-> order, events |-> <<>>, rejected |-> TRUE]
  ELSE [order |-> [order EXCEPT !.state = NextState(order, d), !.executed = d.filled],
        events |-> (IF d.filled > order.executed THEN <<"filled">> ELSE <<>>)
                     \o StatusEvents(d),
        rejected |-> FALSE]

\* c_stop_tracking_order(order_id)
c_stop_tracking_order(reg, o) == reg \ {o}

\* The body of the for loop of _update_inflight_order for one issuable
\* event of order o (already updated): the events emitted and the registry
\* after it, and whether it raised.  The OrderCancelled branch reads the
\* name client_order_id, which is bound nowhere: NameError.  The completion
\* block belongs to the loop body.
IssueOne(ev, o, order, em, reg) ==
  IF ev = "cancelled"
  THEN [em |-> em, reg |-> reg, raised |-> TRUE]
  ELSE LET em1 == Emit(em, o, ev)
       IN IF is_done(order)
          THEN [em |-> IF is_failure(order) THEN em1 ELSE Emit(em1, o, "completed"),
                reg |-> c_stop_tracking_order(reg, o),
                raised |-> FALSE]
          ELSE [em |-> em1, reg |-> reg, raised |-> FALSE]

\* for (market_event, ...) in issuable_events
RECURSIVE IssueEvents(_, _, _, _, _)
IssueEvents(evs, o, order, em, reg) ==
  IF evs = <<>>
  THEN [em |-> em, reg |-> reg, raised |-> FALSE]
  ELSE LET r == IssueOne(Head(evs), o, order, em, reg)
       IN IF r.raised THEN r
          ELSE IssueEvents(Tail(evs), o, order, r.em, r.reg)

\* _update_inflight_order(tracked_order, event): the order object, the
\* events emitted and the registry after the call, and whether it raised.
update_inflight_order(o, d, order, em, reg) ==
  LET u == update(order, d)
  IN IF u.rejected
     THEN [order |-> order, em |-> em, reg |-> reg, raised |-> TRUE]
     ELSE LET r == IssueEvents(u.events, o, u.order, em, reg)
          IN [order |-> u.order, em |-> r.em, reg |-> r.reg, raised |-> r.raised]

\* the delta that made a terminal order terminal
TerminalDelta(order) ==
  [status |-> CASE order.state = "CANCELLED" -> "cancelled"
                [] order.state = "FAILED" -> "failed"
                [] order.state = "EXPIRED" -> "expired"
                [] OTHER -> "processed",
   filled |-> order.executed]

\* `last` after _update_inflight_order was called on order o with delta d
Applied(o, d, raised) ==
  [kind |-> "apply", o |-> o, viol |-> Violating(ord[o], d),
   dup |-> is_done(ord[o]) /\ d = TerminalDelta(ord[o]), raised |-> raised,
   total |-> 0, locked |-> 0]

\* the side of a saved order
SavedSide(o) == IF o % 2 = 1 THEN "BUY" ELSE "SELL"

\* restore_tracking_states(saved_states): every saved order is put back
\* in the registry; the saved orders are open orders with no fill yet.
RestoreTrackingStates(saved) ==
  /\ saved # {}
  /\ \A o \in saved : ord[o].state = "NONE"
  /\ ord' = [o \in Oids |-> IF o \in saved
                            THEN [state |-> "SUBMITTED", executed |-> 0,
                                  amount |-> DefaultRule.max_order_size,
                                  side |-> SavedSide(o)]
                            ELSE ord[o]]
  /\ in_flight' = in_flight \cup saved
  /\ last' = NoApply
  /\ UNCHANGED <<submitSide, trading_rules, emitted, listenerPc, pollVars, cycVars,
                 balVars, cancelVars>>

\* ------------------------------------------------ event stream router
\* an order message that names no entry of the registry
UnrecognizedNever(reg, o) == FALSE

\* a listener that an exception of its loop body ends
ListenerErrorFatal == "dead"

\* where _user_stream_event_listener is after an exception of its loop
\* body: `except Exception` logs and awaits asyncio.sleep(5.0), then the
\* async for goes on
AfterListenerError == "sleep"

\* tracked_order = self._in_flight_orders.get(client_order_id) is None
Unrecognized(reg, o) == o \notin reg

\* _user_stream_event_listener takes a message of topic `order` for client
\* order id o with status delta d from the queue and handles it.
PushOrder(o, d) ==
  /\ listenerPc = "get"
  /\ IF Unrecognized(in_flight, o)
     THEN \* logged, continue
          /\ last' = [NoApply EXCEPT !.kind = "drop", !.o = o]
          /\ UNCHANGED <<ord, emitted, in_flight, listenerPc>>
     ELSE LET r == update_inflight_order(o, d, ord[o], emitted, in_flight)
          IN /\ ord' = [ord EXCEPT ![o] = r.order]
             /\ emitted' = r.em
             /\ in_flight' = r.reg
             /\ last' = Applied(o, d, r.raised)
             \* except Exception: logged, await asyncio.sleep(5.0)
             /\ listenerPc' = IF r.raised THEN AfterListenerError ELSE "get"
  /\ UNCHANGED <<submitSide, trading_rules, pollVars, cycVars, balVars, cancelVars>>

\* asyncio.sleep(5.0) of the listener's except branch is over.
ListenerWake ==
  /\ listenerPc = "sleep"
  /\ listenerPc' = "get"
  /\ last' = NoApply
  /\ UNCHANGED <<submitSide, trading_rules, in_flight, ord, emitted, pollVars,
                 cycVars, balVars, cancelVars>>

\* A message that json.loads rejects, or that lacks 'topic' or 'data': the
\* exception is caught by the listener's except branch.
PushMalformed ==
  /\ listenerPc = "get"
  /\ listenerPc' = AfterListenerError
  /\ last' = NoApply
  /\ UNCHANGED <<submitSide, trading_rules, in_flight, ord, emitted, pollVars,
                 cycVars, balVars, cancelVars>>

\* user_stream.get() raises in _iter_user_event_queue: logged, and the
\* read is tried again after asyncio.sleep(1.0).
StreamReadFails ==
  /\ listenerPc = "get"
  /\ listenerPc' = "backoff"
  /\ last' = NoApply
  /\ UNCHANGED <<submitSide, trading_rules, in_flight, ord, emitted, pollVars,
                 cycVars, balVars, cancelVars>>

\* asyncio.sleep(1.0) of _iter_user_event_queue is over.
BackoffWake ==
  /\ listenerPc = "backoff"
  /\ listenerPc' = "get"
  /\ last' = NoApply
  /\ UNCHANGED <<submitSide, trading_rules, in_flight, ord, emitted, pollVars,
                 cycVars, balVars, cancelVars>>

\* ------------------------------------------------------- cancellation
\* c_cancel schedules cancel_order(o), which runs to its first suspension:
\* with no entry in the registry it emits the cancelled event and returns,
\* with one it sends DELETE api/v2/orders.
\* a cancel_order that says nothing about an order it does not know
CancelUntrackedSilent(em, o) == em

\* cancel_order(o) when in_flight_order is None: the cancellation event is
\* triggered and the coroutine returns
CancelUntracked(em, o) == Emit(em, o, "cancelled")

\* the signature api_request computes for a secure request: a function of
\* its method, URL and parameters; for DELETE api/v2/orders the parameters
\* are the account and the client order id o
RequestSignature(o) == o

\* api_request called without `headers`: the X-API-SIG entries of the
\* headers it passes to the request.  `headers` is then the one dict made
\* when the function was defined; a secure call writes its signature into
\* it with headers.update, any other call sends it as it finds it, and the
\* dict stays as it was sent.
RequestHeaders(secure, headers, o) ==
  IF secure THEN {RequestSignature(o)} ELSE headers

CancelStart(o) ==
  /\ cancelPc[o] # "request"
  /\ cancels[o] < MaxCancels
  /\ cancels' = [cancels EXCEPT ![o] = @ + 1]
  /\ IF o \notin in_flight
     THEN /\ emitted' = CancelUntracked(emitted, o)
          /\ UNCHANGED <<cancelPc, default_headers>>
     ELSE /\ cancelPc' = [cancelPc EXCEPT ![o] = "request"]
          /\ default_headers' = RequestHeaders(TRUE, default_headers, o)
          /\ UNCHANGED emitted
  /\ last' = NoApply
  /\ UNCHANGED <<submitSide, trading_rules, in_flight, ord, listenerPc, pollVars,
                 cycVars, balVars, cancelAllVars>>

\* a cancel_order that reports the cancellation whatever the answer
CancelRequestAlwaysReports(ok, em, reg, o) ==
  [em |-> Emit(em, o, "cancelled"), reg |-> stop_tracking(reg, o)]

\* cancel_order(o) once DELETE api/v2/orders has answered (ok) or has
\* raised: the events emitted and the registry.  An answer stops the
\* tracking and triggers the cancellation event; an exception is logged.
AfterCancelRequest(ok, em, reg, o) ==
  IF ok
  THEN [em |-> Emit(em, o, "cancelled"), reg |-> stop_tracking(reg, o)]
  ELSE [em |-> em, reg |-> reg]

\* DELETE api/v2/orders answers; the position tells how the call ended.
CancelReturn(o, ok) ==
  LET r == AfterCancelRequest(ok, emitted, in_flight, o)
  IN /\ cancelPc[o] = "request"
     /\ cancelPc' = [cancelPc EXCEPT ![o] = IF ok THEN "cancelled" ELSE "failed"]
     /\ in_flight' = r.reg
     /\ emitted' = r.em
     /\ last' = NoApply
     /\ UNCHANGED <<submitSide, trading_rules, ord, listenerPc, pollVars, cycVars,
                    balVars, cancels, cancelAllVars, default_headers>>

\* ------------------------------------------------ reconciliation loop
\* SpecPoll lets the clock run one poll interval longer than MaxTime
LiveTime == MaxTime + PollInterval

MaxCycles == LiveTime \div PollInterval

Cycles == 1..MaxCycles

\* the keys of a registry copy in the order they are iterated
OrderSeq(reg) == SelectSeq([i \in 1..NOids |-> i], LAMBDA o : o \in reg)

\* c_tick(timestamp)
c_tick(timestamp) ==
  LET last_tick == last_timestamp \div PollInterval
      current_tick == timestamp \div PollInterval
  IN /\ poll_notifier' = IF current_tick > last_tick THEN TRUE ELSE poll_notifier
     /\ last_timestamp' = timestamp
     /\ last' = NoApply
     /\ UNCHANGED <<submitSide, trading_rules, in_flight, ord, emitted, listenerPc,
                    pollPc, cycle, reconAt, polling_update_task, cycVars,
                    balVars, cancelVars>>

\* _polling_update is woken by the notifier and starts the three fetch
\* groups with asyncio.gather; each runs to its first request, and
\* _update_order_status copies the registry before it.
PollWake ==
  LET c == cycle + 1
  IN /\ pollPc = "wait"
     /\ poll_notifier
     /\ cycle < MaxCycles
     /\ pollPc' = "gather"
     /\ cycle' = c
     /\ reconAt' = last_timestamp
     /\ balPc' = [balPc EXCEPT ![c] = "fetch"]
     /\ rulesPc' = [rulesPc EXCEPT ![c] = "fetch"]
     /\ cycSnap' = IF recording THEN [cycSnap EXCEPT ![c] = in_flight] ELSE cycSnap
     /\ statRest' = [statRest EXCEPT ![c] = OrderSeq(in_flight)]
     /\ statPc' = [statPc EXCEPT ![c] = IF in_flight = {} THEN "done" ELSE "fetch"]
     /\ last' = NoApply
     /\ UNCHANGED <<submitSide, trading_rules, in_flight, ord, emitted, listenerPc,
                    poll_notifier, last_timestamp, polling_update_task,
                    cycFailed, cycApplied, cycBalSet, recording, rulesEnabled,
                    balVars, cancelVars>>

\* balance records as the exchange sends them: padded amounts per token
BalanceRecords ==
  {r \in [totalAmount : 0..MaxBal, amountLocked : 0..MaxBal] :
     r.amountLocked <= r.totalAmount}

BalanceUpdates == UNION {[D -> BalanceRecords] : D \in SUBSET Tokens}

\* self._token_configuration.unpad(padded, token_id); amounts are counted
\* in the smallest unit of the token
unpad(padded, token_id) == padded

\* _set_balances(updates), the writes made under self._lock: the total
\* and the available balance of every token
SetTotal(updates) ==
  [t \in Tokens |-> IF t \in DOMAIN updates
                    THEN unpad(updates[t].totalAmount, t) ELSE 0]

\* an available balance that ignores the locked amount
SetAvailableAsTotal(updates) ==
  [t \in Tokens |-> IF t \in DOMAIN updates
                    THEN unpad(updates[t].totalAmount, t) ELSE 0]

SetAvailable(updates) ==
  [t \in Tokens |-> IF t \in DOMAIN updates
                    THEN unpad(updates[t].totalAmount, t) - unpad(updates[t].amountLocked, t)
                    ELSE 0]

\* a merge that gives up the event loop between its writes: the totals are
\* written, the available balances are still those of an earlier call
set_balances_torn(updates, total, available) ==
  [total |-> SetTotal(updates), available |-> available]

\* the two tables when _set_balances(updates) returns: `async with
\* self._lock` has no await in its body, so the per-token writes and the
\* zeroing of the absent tokens are made in one step of the event loop
set_balances(updates, total, available) ==
  [total |-> SetTotal(updates), available |-> SetAvailable(updates)]

\* _user_stream_event_listener takes a message of topic `account` for
\* token t with balance record rec from the queue.  self._set_balances([data])
\* is called without await: the call makes a coroutine object that nothing
\* awaits or schedules, so the body of _set_balances does not run.
PushAccount(t, rec) ==
  /\ listenerPc = "get"
  /\ last' = [NoApply EXCEPT !.kind = "account", !.o = t,
                             !.total = rec.totalAmount, !.locked = rec.amountLocked]
  /\ UNCHANGED <<submitSide, trading_rules, in_flight, ord, emitted, listenerPc,
                 pollVars, cycVars, balVars, cancelVars>>

\* GET api/v2/user/balances of cycle c answers; _update_balances awaits
\* _set_balances with the answer, or raises.
BalReturn(c, ok, updates) ==
  /\ balPc[c] = "fetch"
  /\ IF ok
     THEN /\ account_balances' = set_balances(updates, account_balances, account_available_balances).total
          /\ account_available_balances' = set_balances(updates, account_balances, account_available_balances).available
          /\ balBatch' = updates
          /\ balPc' = [balPc EXCEPT ![c] = "done"]
          /\ cycBalSet' = [cycBalSet EXCEPT ![c] = recording]
     ELSE /\ balPc' = [balPc EXCEPT ![c] = "raised"]
          /\ UNCHANGED <<balVars, cycBalSet>>
  /\ last' = NoApply
  /\ UNCHANGED <<submitSide, trading_rules, in_flight, ord, emitted, listenerPc,
                 pollVars, rulesPc, statPc, statRest, cycSnap, cycFailed,
                 cycApplied, recording, rulesEnabled, cancelVars>>

\* the table after the loop over markets_info: a rule is stored for every
\* enabled market of the answer
RulesAfter(rules, enabled) ==
  [p \in DOMAIN rules \cup enabled |-> IF p \in enabled THEN DefaultRule ELSE rules[p]]

\* The two requests of _update_trading_rules of cycle c answer.
RulesReturn(c, ok, enabled) ==
  /\ rulesPc[c] = "fetch"
  /\ IF ok
     THEN /\ trading_rules' = RulesAfter(trading_rules, enabled)
          /\ rulesEnabled' = enabled
          /\ rulesPc' = [rulesPc EXCEPT ![c] = "done"]
     ELSE /\ rulesPc' = [rulesPc EXCEPT ![c] = "raised"]
          /\ UNCHANGED <<trading_rules, rulesEnabled>>
  /\ last' = NoApply
  /\ UNCHANGED <<submitSide, in_flight, ord, emitted, listenerPc, pollVars, balPc,
                 statPc, statRest, cycSnap, cycFailed, cycApplied, cycBalSet,
                 recording, balVars, cancelVars>>

\* a failed status fetch that ends the loop over the copy
AbortAfterFailedFetch(rest) == <<>>

\* what _update_order_status does with a failed status fetch of the order
\* at the head of `rest`: `continue`, the orders still to fetch
AfterFailedFetch(rest) == Tail(rest)

\* GET api/v2/order of cycle c answers for the order at the head of its
\* copy: a failed fetch is logged and skipped, an answer is applied with
\* _update_inflight_order, whose exceptions are logged; then the next
\* order is fetched.
StatusReturn(c, ok, d) ==
  LET o == Head(statRest[c])
      rest == IF ok THEN Tail(statRest[c]) ELSE AfterFailedFetch(statRest[c])
  IN /\ statPc[c] = "fetch"
     /\ IF ok
        THEN LET r == update_inflight_order(o, d, ord[o], emitted, in_flight)
             IN /\ ord' = [ord EXCEPT ![o] = r.order]
                /\ emitted' = r.em
                /\ in_flight' = r.reg
                /\ last' = Applied(o, d, r.raised)
                /\ cycApplied' = [cycApplied EXCEPT ![c] = IF recording THEN @ \cup {o} ELSE @]
                /\ UNCHANGED cycFailed
        ELSE /\ last' = NoApply
             /\ cycFailed' = [cycFailed EXCEPT ![c] = IF recording THEN @ \cup {o} ELSE @]
             /\ UNCHANGED <<ord, emitted, in_flight, cycApplied>>
     /\ statRest' = [statRest EXCEPT ![c] = rest]
     /\ statPc' = [statPc EXCEPT ![c] = IF rest = <<>> THEN "done" ELSE "fetch"]
     /\ UNCHANGED <<submitSide, trading_rules, listenerPc, pollVars, balPc, rulesPc,
                    cycSnap, cycBalSet, recording, rulesEnabled, balVars,
                    cancelVars>>

\* stop_network: the order book tracker is stopped, the pending approvals
\* are cleared and the reference to the polling task is dropped; the task
\* itself is not cancelled, so _polling_update stays where it is.
StopNetwork ==
  /\ polling_update_task' = FALSE
  /\ last' = NoApply
  /\ UNCHANGED <<submitSide, trading_rules, in_flight, ord, emitted, listenerPc,
                 pollPc, poll_notifier, last_timestamp, cycle, reconAt, cycVars,
                 balVars, cancelVars>>

\* asyncio.gather of the running cycle is over: all three groups are done,
\* or one of them raised.  _polling_update logs an exception, makes a new
\* notifier and waits for it.
GatherOver(c) ==
  \/ balPc[c] = "raised"
  \/ rulesPc[c] = "raised"
  \/ (balPc[c] = "done" /\ rulesPc[c] = "done" /\ statPc[c] = "done")

\* one of the awaitables of cycle c raised into asyncio.gather
CycleRaised(c) == balPc[c] = "raised" \/ rulesPc[c] = "raised"

\* a loop that an exception of the cycle ends
AfterCycleFatal(raised) == IF raised THEN "dead" ELSE "wait"

\* where _polling_update is after asyncio.gather: `except Exception` logs
\* and the while loop goes on to wait for a new notifier
AfterCycle(raised) == "wait"

PollGatherReturn ==
  /\ pollPc = "gather"
  /\ GatherOver(cycle)
  /\ pollPc' = AfterCycle(CycleRaised(cycle))
  /\ poll_notifier' = FALSE
  /\ last' = NoApply
  /\ UNCHANGED <<submitSide, trading_rules, in_flight, ord, emitted, listenerPc,
                 last_timestamp, cycle, reconAt, polling_update_task, cycVars,
                 balVars, cancelVars>>

\* ----------------------------------------------------------- cancel_all
\* the success flag cancel_all appends after `await self.cancel_order(o)`:
\* cancel_order catches every exception of its request, so the call
\* returns normally and the except branch of cancel_all is not taken
CancelAllFlag(ok) == TRUE

\* The loop of cancel_all from the order at the head of `rest` to its next
\* suspension: cancel_order of an order that is in the registry no longer
\* triggers the cancellation event and returns, and the loop goes on; for
\* an order in the registry it sends DELETE api/v2/orders.
RECURSIVE CancelAllAdvance(_, _, _, _)
CancelAllAdvance(rest, em, results, reg) ==
  IF rest = <<>> \/ Head(rest) \in reg
  THEN [rest |-> rest, em |-> em, results |-> results]
  ELSE CancelAllAdvance(Tail(rest), CancelUntracked(em, Head(rest)),
                        Append(results, [order_id |-> Head(rest), success |-> TRUE]),
                        reg)

\* cancel_all(timeout_seconds) is called: it copies the registry and runs
\* to its first suspension.
CancelAllStart ==
  LET a == CancelAllAdvance(OrderSeq(in_flight), emitted, <<>>, in_flight)
  IN /\ caPc = "idle"
     /\ caSnap' = in_flight
     /\ caRest' = a.rest
     /\ caResults' = a.results
     /\ emitted' = a.em
     /\ caPc' = IF a.rest = <<>> THEN "done" ELSE "request"
     /\ default_headers' = IF a.rest = <<>> THEN default_headers
                           ELSE RequestHeaders(TRUE, default_headers, Head(a.rest))
     /\ last' = NoApply
     /\ UNCHANGED <<submitSide, trading_rules, in_flight, ord, listenerPc, pollVars,
                    cycVars, balVars, cancelPc, cancels, caFailed>>

\* DELETE api/v2/orders of the cancel_order that cancel_all awaits answers.
CancelAllReturn(ok) ==
  LET o == Head(caRest)
      r == AfterCancelRequest(ok, emitted, in_flight, o)
      a == CancelAllAdvance(Tail(caRest), r.em,
                            Append(caResults, [order_id |-> o, success |-> CancelAllFlag(ok)]),
                            r.reg)
  IN /\ caPc = "request"
     /\ in_flight' = r.reg
     /\ emitted' = a.em
     /\ caResults' = a.results
     /\ caRest' = a.rest
     /\ caFailed' = IF ok THEN caFailed ELSE caFailed \cup {o}
     /\ caPc' = IF a.rest = <<>> THEN "done" ELSE "request"
     /\ default_headers' = IF a.rest = <<>> THEN default_headers
                           ELSE RequestHeaders(TRUE, default_headers, Head(a.rest))
     /\ last' = NoApply
     /\ UNCHANGED <<submitSide, trading_rules, ord, listenerPc, pollVars, cycVars,
                    balVars, cancelPc, cancels, caSnap>>

\* ------------------------------------------------------ specifications
\* The state LoopringMarket.__init__ leaves.
InitCommon ==
  /\ next_order_id = [t \in Tokens |-> NoId]
  /\ lockHolder = NoTask
  /\ lockQueue = <<>>
  /\ in_flight = {}
  /\ ord = [o \in Oids |-> NoOrder]
  /\ emitted = [o \in Oids |-> [k \in EventKinds |-> 0]]
  /\ subPc = [o \in Oids |-> "idle"]
  /\ subArgs = [o \in Oids |-> NoArgs]
  /\ subOrderId = [o \in Oids |-> NoId]
  /\ netPc = "idle"
  /\ netTok = 0
  /\ allocLog = [t \in Tokens |-> <<>>]
  /\ epochAt = [t \in Tokens |-> 0]
  /\ cycle = 0
  /\ balPc = [c \in Cycles |-> "none"]
  /\ rulesPc = [c \in Cycles |-> "none"]
  /\ statPc = [c \in Cycles |-> "none"]
  /\ statRest = [c \in Cycles |-> <<>>]
  /\ account_balances = [t \in Tokens |-> 0]
  /\ account_available_balances = [t \in Tokens |-> 0]
  /\ cancelPc = [o \in Oids |-> "idle"]
  /\ cancels = [o \in Oids |-> 0]
  /\ caPc = "idle"
  /\ caRest = <<>>
  /\ caResults = <<>>
  /\ caSnap = {}
  /\ caFailed = {}
  /\ cycSnap = [c \in Cycles |-> {}]
  /\ cycFailed = [c \in Cycles |-> {}]
  /\ cycApplied = [c \in Cycles |-> {}]
  /\ cycBalSet = [c \in Cycles |-> FALSE]
  /\ last = NoApply
  /\ epochStart = [t \in Tokens |-> NoId]
  /\ reconAt = 0
  /\ default_headers = {}
  /\ balBatch = <<>>
  /\ rulesEnabled = {}

\* Submissions and start_network.  The exchange starts with first unused id
\* 0 for every token; the trading rule table is the empty one of __init__
\* or the one a reconciliation cycle has filled.
InitAlloc ==
  /\ InitCommon
  /\ pollPc = "none"
  /\ polling_update_task = FALSE
  /\ listenerPc = "none"
  /\ poll_notifier = FALSE
  /\ last_timestamp = 0
  /\ recording = FALSE
  /\ remoteNext = [t \in Tokens |-> 0]
  /\ trading_rules \in {<<>>, [p \in {Pair} |-> DefaultRule], [p \in {Pair} |-> FineRule]}
  /\ trading_required \in BOOLEAN

NextAlloc ==
  \/ \E o \in Oids, side \in {"BUY", "SELL"}, kind \in {"LIMIT", "MARKET"},
        amount \in 0..MaxRaw, price \in 0..1 :
       CBuySell(o, side, kind, amount, price)
  \/ \E o \in Oids : ExecuteStart(o)
  \/ \E o \in Oids : LockGranted(o)
  \/ \E o \in Oids, ok \in BOOLEAN : FetchReturn(o, ok)
  \/ \E o \in Oids, res \in PostResults : PostReturn(o, res)
  \/ \E o \in Oids : ResyncGranted(o)
  \/ \E o \in Oids, ok \in BOOLEAN : ResyncReturn(o, ok)
  \/ NetStart
  \/ \E ok \in BOOLEAN : NetConfigured(ok)
  \/ \E ok \in BOOLEAN : NetInfoReturn(ok)
  \/ NetLockGranted
  \/ \E ok \in BOOLEAN : NetSyncReturn(ok)

SpecAlloc == InitAlloc /\ [][NextAlloc]_vars

\* The state in which start_network has started _polling_update, which
\* waits for its notifier, and _user_stream_event_listener waits for a
\* message.
InitRunning ==
  /\ InitCommon
  /\ remoteNext = [t \in Tokens |-> 0]
  /\ trading_rules = <<>>
  /\ trading_required = TRUE
  /\ pollPc = "wait"
  /\ polling_update_task = TRUE
  /\ listenerPc = "get"

\* The order lifecycle under the push path and the poll path.  c_tick has
\* been called at the end of the first poll interval and has set the
\* notifier, so one reconciliation cycle runs; its balance and trading
\* rule requests are answered, with no balance and the one market enabled.
Init ==
  /\ InitRunning
  /\ poll_notifier = TRUE
  /\ last_timestamp = PollInterval
  /\ recording = FALSE

Next ==
  \/ \E saved \in SUBSET Oids : RestoreTrackingStates(saved)
  \/ \E o \in Oids, d \in Deltas : PushOrder(o, d)
  \/ ListenerWake
  \/ PollWake
  \/ \E c \in Cycles : BalReturn(c, TRUE, <<>>)
  \/ \E c \in Cycles : RulesReturn(c, TRUE, {Pair})
  \/ \E c \in Cycles, ok \in BOOLEAN, d \in Deltas : StatusReturn(c, ok, d)
  \/ PollGatherReturn

Spec == Init /\ [][Next]_vars

\* The push path and cancellation.
InitCancel ==
  /\ InitRunning
  /\ poll_notifier = FALSE
  /\ last_timestamp = 0
  /\ recording = FALSE

NextCancel ==
  \/ \E saved \in SUBSET Oids : RestoreTrackingStates(saved)
  \/ \E o \in Oids, d \in Deltas : PushOrder(o, d)
  \/ ListenerWake
  \/ \E o \in Oids : CancelStart(o)
  \/ \E o \in Oids, ok \in BOOLEAN : CancelReturn(o, ok)

SpecCancel == InitCancel /\ [][NextCancel]_vars

\* cancel_all beside the event stream.
NextCancelAll ==
  \/ \E saved \in SUBSET Oids : RestoreTrackingStates(saved)
  \/ \E o \in Oids, d \in Deltas : PushOrder(o, d)
  \/ ListenerWake
  \/ CancelAllStart
  \/ \E ok \in BOOLEAN : CancelAllReturn(ok)

SpecCancelAll == InitCancel /\ [][NextCancelAll]_vars

\* The reconciliation loop with every answer and every failure of its
\* requests, the history of each cycle recorded.
InitCycle ==
  /\ InitRunning
  /\ poll_notifier = FALSE
  /\ last_timestamp = 0
  /\ recording = TRUE

NextCycle ==
  \/ \E saved \in SUBSET Oids : RestoreTrackingStates(saved)
  \/ \E t \in 1..PollInterval : last_timestamp + t <= MaxTime /\ c_tick(last_timestamp + t)
  \/ PollWake
  \/ \E c \in Cycles, ok \in BOOLEAN, updates \in BalanceUpdates : BalReturn(c, ok, updates)
  \/ \E c \in Cycles, ok \in BOOLEAN, enabled \in SUBSET {Pair} : RulesReturn(c, ok, enabled)
  \/ \E c \in Cycles, ok \in BOOLEAN, d \in Deltas : StatusReturn(c, ok, d)
  \/ PollGatherReturn

SpecCycle == InitCycle /\ [][NextCycle]_vars

\* The reconciliation loop over two poll intervals, every request of a
\* cycle answering or failing; the orders stay open.  The event loop runs
\* _polling_update whenever it can go on.
OpenDelta == [status |-> "processing", filled |-> 0]

NextPoll ==
  \/ \E saved \in SUBSET Oids : RestoreTrackingStates(saved)
  \/ \E t \in 1..PollInterval : last_timestamp + t <= LiveTime /\ c_tick(last_timestamp + t)
  \/ PollWake
  \/ \E c \in Cycles, ok \in BOOLEAN : BalReturn(c, ok, <<>>)
  \/ \E c \in Cycles, ok \in BOOLEAN : RulesReturn(c, ok, {Pair})
  \/ \E c \in Cycles, ok \in BOOLEAN : StatusReturn(c, ok, OpenDelta)
  \/ PollGatherReturn

\* The event stream router with every kind of message and failure; the
\* event loop resumes the router when its sleeps are over.
NextStream ==
  \/ \E saved \in SUBSET Oids : RestoreTrackingStates(saved)
  \/ \E o \in Oids, d \in Deltas : PushOrder(o, d)
  \/ \E t \in Tokens, rec \in BalanceRecords : PushAccount(t, rec)
  \/ PushMalformed
  \/ StreamReadFails
  \/ BackoffWake
  \/ ListenerWake

SpecStream ==
  /\ InitCancel
  /\ [][NextStream]_vars
  /\ WF_vars(ListenerWake)
  /\ WF_vars(BackoffWake)

SpecPoll ==
  /\ InitCancel
  /\ [][NextPoll]_vars
  /\ WF_vars(PollWake)
  /\ WF_vars(PollGatherReturn)

\* Reconciliation with every balance answer and every set of enabled
\* markets, account messages of the event stream, and stop_network; no
\* order is tracked.
NextRefresh ==
  \/ \E t \in 1..PollInterval : last_timestamp + t <= LiveTime /\ c_tick(last_timestamp + t)
  \/ PollWake
  \/ \E c \in Cycles, ok \in BOOLEAN, updates \in BalanceUpdates : BalReturn(c, ok, updates)
  \/ \E c \in Cycles, ok \in BOOLEAN, enabled \in SUBSET {Pair} : RulesReturn(c, ok, enabled)
  \/ PollGatherReturn
  \/ \E t \in Tokens, rec \in BalanceRecords : PushAccount(t, rec)
  \/ StopNetwork

SpecRefresh == InitCancel /\ [][NextRefresh]_vars

\* Reconciliation and cancellation: one cycle runs while orders are
\* cancelled.
NextRace ==
  \/ \E saved \in SUBSET Oids : RestoreTrackingStates(saved)
  \/ \E o \in Oids : CancelStart(o)
  \/ \E o \in Oids, ok \in BOOLEAN : CancelReturn(o, ok)
  \/ PollWake
  \/ \E c \in Cycles : BalReturn(c, TRUE, <<>>)
  \/ \E c \in Cycles : RulesReturn(c, TRUE, {Pair})
  \/ \E c \in Cycles, ok \in BOOLEAN, d \in Deltas : StatusReturn(c, ok, d)
  \/ PollGatherReturn

SpecRace == Init /\ [][NextRace]_vars

\* ================================================================ claims
\* The ids the unforced calls on token t returned since the last forced
\* resync of t stored its answer.
EpochIds(t) == SubSeq(allocLog[t], epochAt[t] + 1, Len(allocLog[t]))

\* C1: the unforced _get_next_order_id calls on one token, with no forced
\* resync between them, return start, start+1, ..., start+N-1 in this order,
\* whether the counter existed before the first of them or not; start is
\* the answer the last forced resync stored, when there was one.
C1_AllocContiguous ==
  \A t \in Tokens :
    LET ids == EpochIds(t)
    IN /\ \A k \in 1..Len(ids) : ids[k] = ids[1] + (k - 1)
       /\ (Len(ids) > 0 /\ epochStart[t] # NoId) => ids[1] = epochStart[t]

\* C2: per sell token the ids place_order obtains are strictly increasing,
\* hence pairwise distinct, across startup and forced resyncs.
C2_IdsStrictlyIncreasing ==
  \A t \in Tokens : \A j, k \in 1..Len(allocLog[t]) :
    j < k => allocLog[t][j] < allocLog[t][k]

\* the terminal lifecycle events emitted so far for client order id o
TermCount(em, o) ==
  em[o]["completed"] + em[o]["cancelled"] + em[o]["expired"] + em[o]["failure"]

\* C3: a step in which _update_inflight_order takes a tracked order into a
\* terminal state emits exactly one terminal lifecycle event for it and
\* leaves it out of the registry.
C3_TerminalTransitionOneEvent ==
  [][\A o \in Oids :
       (last'.kind = "apply" /\ last'.o = o /\ o \in in_flight
          /\ ~is_done(ord[o]) /\ is_done(ord'[o]))
       => /\ TermCount(emitted', o) = TermCount(emitted, o) + 1
          /\ o \notin in_flight']_vars

\* C4: when the delta that made an order terminal has just been applied to
\* it a second time, by the listener or by the reconciliation cycle, the
\* order has exactly one terminal event in total.
C4_SameTerminalDeltaTwice ==
  (last.kind = "apply" /\ last.dup) => TermCount(emitted, last.o) = 1

\* C5: a submission that failed (validation error, failed or rejected order
\* request, forced resync failing as well) has exactly one order-failure
\* event and is not in the registry.
C5_FailedSubmissionOneFailureEvent ==
  \A o \in Oids :
    subPc[o] \in {"raised", "failed", "crashed"} =>
      emitted[o]["failure"] = 1 /\ o \notin in_flight

\* C6: a submission that found its trading rule and has run to its end has
\* exactly one of the created event and the failure event, and the created
\* event only if the exchange accepted the order and it started being
\* tracked.
C6_CreatedXorFailed ==
  \A o \in Oids :
    subPc[o] \in {"done", "raised", "failed", "crashed"} =>
      /\ emitted[o]["created"] + emitted[o]["failure"] = 1
      /\ emitted[o]["created"] = 1 => subPc[o] = "done"

\* C7: in every step the cumulative executed amount of every order does not
\* decrease and stays at most its requested amount, and a delta for an open
\* order that would lower it or lift it above the requested amount is
\* rejected: the call raises and the order is as before.
C7_FillMonotoneBounded ==
  [][\A o \in Oids :
       /\ ord'[o].executed >= ord[o].executed
       /\ ord'[o].executed <= ord'[o].amount
       /\ (last'.kind = "apply" /\ last'.o = o /\ last'.viol /\ ~is_done(ord[o]))
          => (last'.raised /\ ord'[o] = ord[o])]_vars

\* C7 witness: a violating delta was applied to an order that is open and
\* partly filled, and was rejected.
C7_Witness ==
  /\ last.kind = "apply" /\ last.viol /\ last.raised
  /\ ord[last.o].state = "PARTIALLY_FILLED"
  /\ ord[last.o].executed = 1

\* C8: every client order id that was tracked and is in the registry no
\* longer has had a terminal lifecycle event emitted.
C8_RemovedOnlyAfterTerminalEvent ==
  \A o \in Oids :
    (ord[o].state # "NONE" /\ o \notin in_flight) => TermCount(emitted, o) >= 1

\* C9: a step in which the listener handles an order message for a client
\* order id that is not in the registry drops it: no delta is applied, no
\* event is emitted, the registry and every order are as before.  (Under
\* SpecCancel every delta is handled by the listener.)
C9_UnknownPushDropped ==
  [][\A o \in Oids :
       (last'.kind # "none" /\ last'.o = o /\ o \notin in_flight)
       => /\ last'.kind = "drop"
          /\ UNCHANGED <<in_flight, ord, emitted>>]_vars

\* C9 witness: a message was dropped while another order was tracked.
C9_Witness ==
  last.kind = "drop" /\ in_flight # {} /\ last.o \notin in_flight

\* C10: in a cycle whose balance fetch answered the balances were written,
\* and once its _update_order_status is over every order of its copy whose
\* status fetch did not fail has had its status applied.
C10_CycleSurvivesFailedFetch ==
  \A c \in Cycles :
    /\ balPc[c] = "done" => cycBalSet[c]
    /\ statPc[c] = "done" => cycApplied[c] = cycSnap[c] \ cycFailed[c]

\* C10 witness: a finished cycle in which the balance fetch answered, the
\* status fetch of the first order failed and the second order's status
\* was applied.
C10_Witness ==
  \E c \in Cycles :
    /\ statPc[c] = "done" /\ balPc[c] = "done" /\ cycBalSet[c]
    /\ cycFailed[c] = {1} /\ cycApplied[c] = {2}

\* C11: a cycle in which a fetch raised does not end the polling loop: the
\* loop comes back to wait for its notifier, and once a tick has crossed a
\* poll-interval boundary and set that notifier, a further cycle starts.
C11_FailedCycleNotFatal ==
  \A c \in 1..(MaxCycles - 1) :
    /\ (cycle = c /\ CycleRaised(c)) ~> (pollPc = "wait" \/ cycle > c)
    /\ (cycle = c /\ CycleRaised(c) /\ pollPc = "wait" /\ poll_notifier) ~> (cycle > c)

\* C11 witness: a cycle has started after a cycle in which a fetch raised.
C11_Witness ==
  \E c \in Cycles : CycleRaised(c) /\ cycle > c /\ pollPc = "gather"

\* C12: the router is never ended by an error: whenever it is not waiting
\* for a message (after a failed read, a malformed message or an
\* exception of _update_inflight_order) it comes back to wait for the next
\* one.
C12_RouterNeverTerminates ==
  (listenerPc # "get") ~> (listenerPc = "get")

\* C12 witness: the router sleeps after _update_inflight_order raised.
C12_Witness ==
  listenerPc = "sleep" /\ last.kind = "apply" /\ last.raised

\* C18: when the router has just handled an account message, the total
\* balance of its token is the total amount of the message and the
\* available balance is the total less the locked amount.
C18_AccountPushSetsBalance ==
  last.kind = "account" =>
    /\ account_balances[last.o] = unpad(last.total, last.o)
    /\ account_available_balances[last.o]
         = unpad(last.total, last.o) - unpad(last.locked, last.o)

\* the order kind is one the trading rule does not support
Unsupported(rule, kind) ==
  \/ kind = "LIMIT" /\ ~rule.supports_limit_orders
  \/ kind = "MARKET" /\ ~rule.supports_market_orders

\* submission o takes its first step, with a trading rule for the pair
Validated(o) ==
  subPc[o] = "scheduled" /\ subPc'[o] # "scheduled" /\ Pair \in DOMAIN trading_rules

\* submission o ended with the ValueError and nothing of the allocator or
\* of the exchange was touched: no id, no lock, no request
RejectedUntouched(o) ==
  /\ subPc'[o] = "raised"
  /\ subOrderId'[o] = NoId
  /\ UNCHANGED <<next_order_id, lockHolder, lockQueue, allocLog, remoteNext>>

\* C13: a submission of an order kind that the pair's trading rule does not
\* support ends with the validation error in its first step: no order id
\* is allocated, no request is sent and the id counters are as before.
C13_UnsupportedKindRejectedFirst ==
  [][\A o \in Oids :
       (Validated(o) /\ Unsupported(trading_rules[Pair], subArgs[o].kind))
       => RejectedUntouched(o)]_vars

\* C13 witness: a market order, valid apart from its kind, was rejected.
C13_Witness ==
  \E o \in Oids :
    /\ subPc[o] = "raised" /\ subArgs[o].kind = "MARKET"
    /\ subArgs[o].amount = DefaultRule.min_order_size /\ subArgs[o].price = 1
    /\ subOrderId[o] = NoId /\ emitted[o]["failure"] = 1

\* the amount rounds down to less than the minimum order size of the rule
BelowMinimum(rule, amount) ==
  QuantizeDown(amount, rule.min_base_amount_increment) < rule.min_order_size

InSection == {o \in Oids : subPc[o] \in {"fetch", "resync_fetch"}}

\* the number of tasks between acquiring and releasing the allocator lock
SectionCount == Cardinality(InSection) + (IF netPc = "fetch" THEN 1 ELSE 0)

\* C19: at most one task is inside the allocator's critical section, the
\* task that holds the lock, and while a task stays inside it across a
\* step (its remote refresh is pending) no counter of any token changes.
C19_OneCriticalSection ==
  /\ [](/\ SectionCount <= 1
        /\ \A o \in InSection : lockHolder = o
        /\ netPc = "fetch" => lockHolder = NetTask)
  /\ [][((\E o \in InSection : subPc'[o] = subPc[o]) \/ (netPc = "fetch" /\ netPc' = "fetch" /\ netTok' = netTok))
        => next_order_id' = next_order_id]_vars

\* C19 witness: a remote refresh is pending while another submission waits
\* for the lock.
C19_Witness ==
  \E o, q \in Oids : subPc[o] = "fetch" /\ subPc[q] = "lockwait" /\ lockQueue = <<q>>

\* C15: a cancel_order call for a client order id that is not in the
\* registry emits exactly one cancellation event for it, sends no request
\* and changes nothing else.
C15_CancelUntrackedEmitsOnce ==
  [][\A o \in Oids :
       (cancels'[o] = cancels[o] + 1 /\ o \notin in_flight)
       => /\ emitted' = Emit(emitted, o, "cancelled")
          /\ cancelPc'[o] # "request"
          /\ UNCHANGED <<in_flight, ord, cancelPc>>]_vars

\* C15 witness: an order that was never tracked was cancelled.
C15_Witness ==
  \E o \in Oids :
    /\ cancels[o] = 1 /\ ord[o].state = "NONE" /\ cancelPc[o] = "idle"
    /\ emitted[o]["cancelled"] = 1

\* C16: when the request of cancel_order fails, no event is emitted and
\* the registry is as before: the order, if it was in it, still is.
C16_FailedCancelNoEvent ==
  [][\A o \in Oids :
       (cancelPc[o] = "request" /\ cancelPc'[o] = "failed")
       => UNCHANGED <<emitted, in_flight>>]_vars

\* C16 witness: the cancellation request of a tracked order failed.
C16_Witness ==
  \E o \in Oids :
    cancelPc[o] = "failed" /\ o \in in_flight /\ emitted[o]["cancelled"] = 0

\* C17: when cancel_all is over its list has one result per order that
\* was in the registry at the call, and the success flag of an order is
\* false exactly when its cancellation request failed.
C17_CancelAllResults ==
  caPc = "done" =>
    /\ Len(caResults) = Cardinality(caSnap)
    /\ {caResults[i].order_id : i \in 1..Len(caResults)} = caSnap
    /\ \A i \in 1..Len(caResults) :
         caResults[i].success = (caResults[i].order_id \notin caFailed)

\* C20: a step in which _update_inflight_order applies a delta with the
\* cancel status to a tracked open order, from the listener or from the
\* reconciliation cycle, leaves the order CANCELLED, emits one
\* order-cancelled event for its client order id and removes it from the
\* registry.
C20_CancelDeltaCancels ==
  [][\A o \in Oids :
       (last'.kind = "apply" /\ last'.o = o /\ o \in in_flight
          /\ ~is_done(ord[o]) /\ is_cancelled(ord'[o]))
       => /\ emitted'[o]["cancelled"] = emitted[o]["cancelled"] + 1
          /\ o \notin in_flight']_vars

\* C21: the reconciliation loop waits for all three fetch groups of a cycle
\* to finish, whether they succeed or fail, before it waits for the next
\* wakeup; so no fetch group of a cycle is still running once the loop
\* waits again or a later cycle has started.
C21_LoopWaitsForAllGroups ==
  \A c \in Cycles :
    (c < cycle \/ (c = cycle /\ pollPc = "wait"))
      => (balPc[c] # "fetch" /\ rulesPc[c] # "fetch" /\ statPc[c] # "fetch")

\* C22: after a submission that was allocated an id for sell token T is
\* rejected or fails, the forced resync for T completes before any later
\* submission is allocated an id for T: while the resync of a failed
\* submission is still outstanding, no id is allocated for its token.
C22_ResyncBeforeLaterAllocation ==
  [][\A o \in Oids :
       LET T == SellToken(subArgs[o].side)
       IN (subPc[o] \in {"resync_lockwait", "resync_fetch"} /\ subOrderId[o] # NoId)
            => Len(allocLog'[T]) = Len(allocLog[T])]_vars

\* C23: when the remote next-id query fails, _get_next_order_id hands an
\* error to its caller instead of an id, queries the exchange no second
\* time in that call, and leaves the stored counter unchanged: a call
\* leaves its query either with the answer stored and returned, or in the
\* error handling of its caller with no id and every counter as it was.
C23_FailedQueryReportsError ==
  [][/\ \A o \in Oids :
          LET T == SellToken(subArgs[o].side)
          IN /\ (subPc[o] = "fetch" /\ subPc'[o] # "fetch")
                  => \/ /\ subPc'[o] = "post"
                        /\ subOrderId'[o] = remoteNext[T]
                        /\ next_order_id'[T] = remoteNext[T]
                     \/ /\ subPc'[o] \in {"resync_lockwait", "resync_fetch"}
                        /\ subOrderId'[o] = NoId
                        /\ next_order_id' = next_order_id
             /\ (subPc[o] = "resync_fetch" /\ subPc'[o] # "resync_fetch")
                  => \/ /\ subPc'[o] = "failed"
                        /\ next_order_id'[T] = remoteNext[T]
                     \/ /\ subPc'[o] = "crashed"
                        /\ next_order_id' = next_order_id
     /\ (netPc = "fetch" /\ netPc' = "crashed") => next_order_id' = next_order_id]_vars

\* a forced resync failed for a token whose counter existed, and the
\* counter is still there
C23_Witness ==
  \E o \in Oids : /\ subPc[o] = "crashed"
                  /\ next_order_id[SellToken(subArgs[o].side)] # NoId

\* C24: balance merges are mutually exclusive, the writes of one
\* _set_balances call are never interleaved with those of another: at
\* every point where another task can run, both tables hold the writes of
\* one and the same call, the last one that completed, also when the
\* merges of two cycles and account messages of the event stream are
\* outstanding together.
C24_MergesNotInterleaved ==
  /\ account_balances = SetTotal(balBatch)
  /\ account_available_balances = SetAvailable(balBatch)

\* the merge of cycle 2 has written its balances while the merge of cycle 1
\* is still outstanding
C24_Witness ==
  /\ cycle = 2
  /\ balPc[1] = "fetch"
  /\ balPc[2] = "done"
  /\ \E t \in Tokens : account_balances[t] > account_available_balances[t]

\* C25: a trading-rule refresh rebuilds the table wholesale: when
\* _update_trading_rules completes, the table holds a rule for exactly the
\* enabled markets of the fetched answer, and no entry of an earlier
\* refresh survives.
C25_RulesRebuiltWholesale ==
  [][\A c \in Cycles :
       (rulesPc[c] = "fetch" /\ rulesPc'[c] = "done")
         => DOMAIN trading_rules' = rulesEnabled']_vars

\* C26: c_tick signals a reconciliation wakeup when, and only when, a full
\* poll interval has elapsed since the last reconciliation (since time 0
\* before the first one); a tick that arrives earlier signals nothing.
C26_TickSignalsAfterFullInterval ==
  [][last_timestamp' # last_timestamp
       => (poll_notifier' <=> (poll_notifier \/ last_timestamp' - reconAt >= PollInterval))]_vars

\* C27: when a _set_balances call completes, every token of the update
\* batch has total = the reported total and available = total minus
\* locked, and every configured token absent from the batch has total and
\* available 0, whatever the tables held before.
C27_BalancesAfterMerge ==
  [][\A c \in Cycles :
       (balPc[c] = "fetch" /\ balPc'[c] = "done")
         => \A t \in Tokens :
              IF t \in DOMAIN balBatch'
              THEN /\ account_balances'[t] = unpad(balBatch'[t].totalAmount, t)
                   /\ account_available_balances'[t] =
                        unpad(balBatch'[t].totalAmount, t) - unpad(balBatch'[t].amountLocked, t)
              ELSE /\ account_balances'[t] = 0
                   /\ account_available_balances'[t] = 0]_vars

\* two merges have completed; the last batch had a token with a locked
\* amount and lacked another token
C27_Witness ==
  /\ balPc[1] = "done"
  /\ balPc[2] = "done"
  /\ \E t \in DOMAIN balBatch : /\ balBatch[t].amountLocked > 0
                               /\ account_available_balances[t] < account_balances[t]
  /\ \E t \in Tokens \ DOMAIN balBatch : account_balances[t] = 0

\* C28: for every client order id at most one terminal lifecycle event
\* (completed, cancelled, expired or failed) is ever emitted, under every
\* interleaving of cancellations and status updates acting on the order.
C28_AtMostOneTerminalEvent ==
  \A o \in Oids : TermCount(emitted, o) <= 1

\* C29: the poll path never applies a status delta to, nor emits events
\* for, an order that is no longer in the registry at the moment of
\* application: a step of _update_order_status that handles the answer for
\* an order removed while its fetch was outstanding leaves the order and
\* the emitted events as they were.
C29_PollSkipsRemovedOrder ==
  [][\A c \in Cycles :
       (statRest'[c] # statRest[c] /\ statRest[c] # <<>> /\ Head(statRest[c]) \notin in_flight)
         => (ord' = ord /\ emitted' = emitted)]_vars

\* C30: after stop_network no reconciliation cycle runs until the next
\* start_network: a cycle starts only while the connector holds its
\* polling task.
C30_NoCycleAfterStop ==
  [][cycle' # cycle => polling_update_task]_vars

\* C31: a request signature header (X-API-SIG) is attached only to the
\* secure request it was computed for: the requests a reconciliation cycle
\* sends when it starts (secure = False) carry no X-API-SIG header, and the
\* DELETE request of cancel_order carries the signature of that request
\* and no other.
C31_SignatureOnlyOnItsRequest ==
  [][/\ cycle' # cycle => RequestHeaders(FALSE, default_headers, 0) = {}
     /\ \A o \in Oids :
          (cancelPc[o] # "request" /\ cancelPc'[o] = "request")
            => default_headers' = {RequestSignature(o)}]_vars

====
